---- MODULE Spec2Model ----
(***************************************************************************)
(* Pizza order state machine (src/08.pizza-order-state-machine.py).        *)
(*                                                                         *)
(* The OrderState is a dictionary whose keys are all NotRequired: it is    *)
(* modelled as a function whose DOMAIN is the set of keys assigned so far. *)
(* Each tool is an operator from (arguments, runtime.state) to the update  *)
(* dictionary of the Command it returns; the tool node merges the update   *)
(* into the state.  Money is counted in cents (every menu price is a       *)
(* whole number of cents).                                                 *)
(***************************************************************************)
EXTENDS Integers, Sequences, FiniteSets, TLC

VARIABLES state, tool_call, tool_message, pc, request,
          progress, inflight, completed, overlapped,
          result_cache, clock, cache_call, last_written,
          storage, checkpointer, current_thread_id, memory_call,
          recipe, next_node, last_node, interrupted, reviews

\* The order workflow (08.pizza-order-state-machine.py).
orderVars == <<state, tool_call, tool_message, pc, request,
               progress, inflight, completed, overlapped>>

\* The search result cache (utils/tools/websearchtools.py).
cacheVars == <<result_cache, clock, cache_call, last_written>>

\* The memory tools (utils/tools/memory.py).
memoryVars == <<storage, checkpointer, current_thread_id, memory_call>>

\* The recipe review graph (10.recipe-generator-hitl.py).
recipeVars == <<recipe, next_node, last_node, interrupted, reviews>>

vars == <<orderVars, cacheVars, memoryVars, recipeVars>>

\* ------------------------------------------------------------------ bounds
MaxItems == 3
MaxIndex == 5
MaxCompleted == 2

\* ------------------------------------------------------- state dictionary
\* OrderState: the keys a state may hold besides the message history.
OrderState ==
    {"current_step", "order_items", "order_type", "delivery_address",
     "order_total", "payment_confirmed"}

OrderStep ==
    {"greeting", "order_collection", "order_type", "delivery_address",
     "order_summary", "payment"}

\* runtime.state.get(key, default)
Get(st, key, default) == IF key \in DOMAIN st THEN st[key] ELSE default

\* The state after construction: no key assigned.
EmptyState == [k \in {} |-> 0]

\* The tool node applies Command(update=...): every key of the update other
\* than "messages" overwrites the state's value, every other key is kept.
ApplyUpdate(st, update) ==
    [k \in (DOMAIN st) \cup ((DOMAIN update) \ {"messages"}) |->
        IF k \in DOMAIN update THEN update[k] ELSE st[k]]

\* ------------------------------------------------------- python helpers
Min(a, b) == IF a < b THEN a ELSE b
Max(a, b) == IF a > b THEN a ELSE b

\* A python slice bound, clamped as list slicing clamps it.
SliceBound(i, n) == IF i < 0 THEN Max(i + n, 0) ELSE Min(i, n)

\* s[lo:hi] of a python list (0-based, hi exclusive).
Slice(s, lo, hi) ==
    SubSeq(s, SliceBound(lo, Len(s)) + 1, SliceBound(hi, Len(s)))

\* sum(item["price"] * item["quantity"] for item in items)
RECURSIVE SumItems(_)
SumItems(items) ==
    IF items = <<>> THEN 0
    ELSE SumItems(SubSeq(items, 1, Len(items) - 1))
         + items[Len(items)].price * items[Len(items)].quantity

\* ------------------------------------------------------------------ tools
start_order_keeps_order(st) ==
    [messages |-> [tool |-> "start_order", content |-> "Ready to take order"],
     current_step |-> "order_collection"]

start_order(st) ==
    [messages |-> [tool |-> "start_order", content |-> "Ready to take order"],
     current_step |-> "order_collection",
     order_items |-> <<>>,
     order_total |-> 0]

add_item_wrong_total(item_name, size, quantity, extras, price, st) ==
    LET current_items == Get(st, "order_items", <<>>)
        current_total == Get(st, "order_total", 0)
        new_item == [name |-> item_name, size |-> size, quantity |-> quantity,
                     extras |-> extras, price |-> price]
    IN  [messages |-> [tool |-> "add_item", content |-> "Added",
                       total |-> current_total + price],
         order_items |-> current_items \o <<new_item>>,
         order_total |-> current_total + price]

add_item_forgets_order(item_name, size, quantity, extras, price, st) ==
    LET current_total == Get(st, "order_total", 0)
        new_item == [name |-> item_name, size |-> size, quantity |-> quantity,
                     extras |-> extras, price |-> price]
        updated_total == current_total + (price * quantity)
    IN  [messages |-> [tool |-> "add_item", content |-> "Added",
                       total |-> updated_total],
         order_items |-> <<new_item>>,
         order_total |-> updated_total]

add_item(item_name, size, quantity, extras, price, st) ==
    LET current_items == Get(st, "order_items", <<>>)
        current_total == Get(st, "order_total", 0)
        new_item == [name |-> item_name, size |-> size, quantity |-> quantity,
                     extras |-> extras, price |-> price]
        updated_items == current_items \o <<new_item>>
        updated_total == current_total + (price * quantity)
    IN  [messages |-> [tool |-> "add_item", content |-> "Added",
                       total |-> updated_total],
         order_items |-> updated_items,
         order_total |-> updated_total]

remove_item_zero_based(item_index, st) ==
    LET current_items == Get(st, "order_items", <<>>)
    IN  IF item_index < 1 \/ item_index > Len(current_items)
        THEN [messages |-> [tool |-> "remove_item",
                            content |-> "Invalid item number",
                            total |-> Len(current_items)]]
        ELSE LET updated_items ==
                     Slice(current_items, 0, item_index)
                     \o Slice(current_items, item_index + 1, Len(current_items))
                 updated_total == SumItems(updated_items)
             IN  [messages |-> [tool |-> "remove_item", content |-> "Removed",
                                total |-> updated_total],
                  order_items |-> updated_items,
                  order_total |-> updated_total]

remove_item_loose_guard(item_index, st) ==
    LET current_items == Get(st, "order_items", <<>>)
    IN  IF item_index < 0 \/ item_index > Len(current_items) + 1
        THEN [messages |-> [tool |-> "remove_item",
                            content |-> "Invalid item number",
                            total |-> Len(current_items)]]
        ELSE LET updated_items ==
                     Slice(current_items, 0, item_index - 1)
                     \o Slice(current_items, item_index, Len(current_items))
                 updated_total == SumItems(updated_items)
             IN  [messages |-> [tool |-> "remove_item", content |-> "Removed",
                                total |-> updated_total],
                  order_items |-> updated_items,
                  order_total |-> updated_total]

remove_item(item_index, st) ==
    LET current_items == Get(st, "order_items", <<>>)
    IN  IF item_index < 1 \/ item_index > Len(current_items)
        THEN [messages |-> [tool |-> "remove_item",
                            content |-> "Invalid item number",
                            total |-> Len(current_items)]]
        ELSE LET updated_items ==
                     Slice(current_items, 0, item_index - 1)
                     \o Slice(current_items, item_index, Len(current_items))
                 updated_total == SumItems(updated_items)
             IN  [messages |-> [tool |-> "remove_item", content |-> "Removed",
                                total |-> updated_total],
                  order_items |-> updated_items,
                  order_total |-> updated_total]

finish_order_collection(st) ==
    [messages |-> [tool |-> "finish_order_collection",
                   content |-> "Order collection complete"],
     current_step |-> "order_type"]

set_order_type_reversed(order_type, st) ==
    LET next_step == IF order_type = "delivery" THEN "order_summary"
                     ELSE "delivery_address"
    IN  [messages |-> [tool |-> "set_order_type",
                       content |-> "Order type set to", value |-> order_type],
         order_type |-> order_type,
         current_step |-> next_step]

set_order_type(order_type, st) ==
    LET next_step == IF order_type = "delivery" THEN "delivery_address"
                     ELSE "order_summary"
    IN  [messages |-> [tool |-> "set_order_type",
                       content |-> "Order type set to", value |-> order_type],
         order_type |-> order_type,
         current_step |-> next_step]

set_delivery_address(address, st) ==
    [messages |-> [tool |-> "set_delivery_address",
                   content |-> "Delivery address recorded", value |-> address],
     delivery_address |-> address,
     current_step |-> "order_summary"]

confirm_order_marks_paid(st) ==
    [messages |-> [tool |-> "confirm_order", content |-> "Order confirmed"],
     current_step |-> "payment",
     payment_confirmed |-> TRUE]

confirm_order(st) ==
    [messages |-> [tool |-> "confirm_order", content |-> "Order confirmed"],
     current_step |-> "payment"]

add_more_items_clears_order(st) ==
    [messages |-> [tool |-> "add_more_items",
                   content |-> "Going back to add more items"],
     current_step |-> "order_collection",
     order_items |-> <<>>,
     order_total |-> 0]

add_more_items(st) ==
    [messages |-> [tool |-> "add_more_items",
                   content |-> "Going back to add more items"],
     current_step |-> "order_collection"]

\* f"{x:.2f}" of an amount x held in thousandths of a cent, as the set of
\* cent values the formatting can print: the nearest cent, and at an exact
\* half cent either neighbour (the binary rounding of the float product
\* decides which: 3.00 * 0.085 prints 0.26, 5.00 * 0.085 prints 0.43).
Format2f(x) ==
    IF x % 1000 = 500 THEN {x \div 1000, x \div 1000 + 1}
    ELSE {(x + 500) \div 1000}

\* Tax is 8.5% of the subtotal: with the subtotal in cents, tax and
\* final_total are carried in thousandths of a cent.
process_payment_resets_order(payment_method, st) ==
    LET order_total == Get(st, "order_total", 0)
        tax == order_total * 85
        final_total == order_total * 1000 + tax
    IN  [messages |-> [tool |-> "process_payment",
                       content |-> "Payment processed",
                       method |-> payment_method, subtotal |-> order_total,
                       tax |-> tax, total |-> final_total,
                       tax_2f |-> Format2f(tax),
                       total_2f |-> Format2f(final_total)],
         payment_confirmed |-> TRUE,
         order_items |-> <<>>,
         order_total |-> 0]

process_payment_tax_8_percent(payment_method, st) ==
    LET order_total == Get(st, "order_total", 0)
        tax == order_total * 80
        final_total == order_total * 1000 + tax
    IN  [messages |-> [tool |-> "process_payment",
                       content |-> "Payment processed",
                       method |-> payment_method, subtotal |-> order_total,
                       tax |-> tax, total |-> final_total,
                       tax_2f |-> Format2f(tax),
                       total_2f |-> Format2f(final_total)],
         payment_confirmed |-> TRUE]

process_payment_truncates_cents(payment_method, st) ==
    LET order_total == Get(st, "order_total", 0)
        tax == order_total * 85
        final_total == order_total * 1000 + tax
    IN  [messages |-> [tool |-> "process_payment",
                       content |-> "Payment processed",
                       method |-> payment_method, subtotal |-> order_total,
                       tax |-> tax, total |-> final_total,
                       tax_2f |-> {tax \div 1000},
                       total_2f |-> {final_total \div 1000}],
         payment_confirmed |-> TRUE]

process_payment(payment_method, st) ==
    LET order_total == Get(st, "order_total", 0)
        order_type == Get(st, "order_type", "pickup")
        tax == order_total * 85
        final_total == order_total * 1000 + tax
    IN  [messages |-> [tool |-> "process_payment",
                       content |-> "Payment processed",
                       method |-> payment_method, subtotal |-> order_total,
                       tax |-> tax, total |-> final_total,
                       tax_2f |-> Format2f(tax),
                       total_2f |-> Format2f(final_total)],
         payment_confirmed |-> TRUE]

go_back_to_order_resets_paid(st) ==
    [messages |-> [tool |-> "go_back_to_order",
                   content |-> "Going back to order collection"],
     current_step |-> "order_collection",
     payment_confirmed |-> FALSE]

go_back_to_order_to_greeting(st) ==
    [messages |-> [tool |-> "go_back_to_order",
                   content |-> "Going back to order collection"],
     current_step |-> "greeting"]

go_back_to_order(st) ==
    [messages |-> [tool |-> "go_back_to_order",
                   content |-> "Going back to order collection"],
     current_step |-> "order_collection"]

\* ------------------------------------------------------ step configuration
STEP_CONFIG ==
    [greeting |->
        [prompt |-> "GREETING_PROMPT",
         tools |-> {"start_order"},
         requires |-> {}],
     order_collection |->
        [prompt |-> "ORDER_COLLECTION_PROMPT",
         tools |-> {"add_item", "remove_item", "finish_order_collection"},
         requires |-> {}],
     order_type |->
        [prompt |-> "ORDER_TYPE_PROMPT",
         tools |-> {"set_order_type", "go_back_to_order"},
         requires |-> {"order_items"}],
     delivery_address |->
        [prompt |-> "DELIVERY_ADDRESS_PROMPT",
         tools |-> {"set_delivery_address", "go_back_to_order"},
         requires |-> {"order_type"}],
     order_summary |->
        [prompt |-> "ORDER_SUMMARY_PROMPT",
         tools |-> {"confirm_order", "add_more_items"},
         requires |-> {"order_items", "order_type"}],
     payment |->
        [prompt |-> "PAYMENT_PROMPT",
         tools |-> {"process_payment", "go_back_to_order"},
         requires |-> {"order_items", "order_type"}]]

apply_step_config_wrong_default(st) ==
    LET current_step == Get(st, "current_step", "order_collection")
        step_config == STEP_CONFIG[current_step]
        format_values ==
            [order_items |-> Get(st, "order_items", <<>>),
             order_total |-> Get(st, "order_total", 0),
             order_type |-> Get(st, "order_type", "not set"),
             delivery_address |-> Get(st, "delivery_address", "N/A")]
    IN  [system_prompt |-> [template |-> step_config.prompt,
                            values |-> format_values],
         tools |-> step_config.tools]

\* The middleware: the prompt and tools the model is given for this call.
apply_step_config(st) ==
    LET current_step == Get(st, "current_step", "greeting")
        step_config == STEP_CONFIG[current_step]
        format_values ==
            [order_items |-> Get(st, "order_items", <<>>),
             order_total |-> Get(st, "order_total", 0),
             order_type |-> Get(st, "order_type", "not set"),
             delivery_address |-> Get(st, "delivery_address", "N/A")]
    IN  [system_prompt |-> [template |-> step_config.prompt,
                            values |-> format_values],
         tools |-> step_config.tools]

all_tools ==
    {"start_order", "add_item", "remove_item", "finish_order_collection",
     "set_order_type", "set_delivery_address", "confirm_order",
     "add_more_items", "process_payment", "go_back_to_order"}

\* ------------------------------------------------------ tool-call inputs
AddItemInputs ==
    {[item_name |-> "Cheese Pizza", size |-> "medium", quantity |-> 1,
      extras |-> <<>>, price |-> 925],
     [item_name |-> "Pepperoni Pizza", size |-> "medium", quantity |-> 1,
      extras |-> <<>>, price |-> 1000],
     [item_name |-> "Pepperoni Pizza", size |-> "large", quantity |-> 0,
      extras |-> <<"mushrooms">>, price |-> 1445],
     [item_name |-> "Coke", size |-> "small", quantity |-> 3,
      extras |-> <<>>, price |-> 100]}

Addresses == {"", "12 Main St"}

PaymentMethods == {"cash", "credit card"}

ToolCalls ==
    {[tool |-> t] : t \in {"start_order", "finish_order_collection",
                           "confirm_order", "add_more_items",
                           "go_back_to_order"}}
    \cup {[tool |-> "add_item", args |-> a] : a \in AddItemInputs}
    \cup {[tool |-> "remove_item", args |-> [item_index |-> i]] :
             i \in -1 .. MaxIndex}
    \cup {[tool |-> "set_order_type", args |-> [order_type |-> o]] :
             o \in {"pickup", "delivery"}}
    \cup {[tool |-> "set_delivery_address", args |-> [address |-> a]] :
             a \in Addresses}
    \cup {[tool |-> "process_payment", args |-> [payment_method |-> m]] :
             m \in PaymentMethods}

\* The Command a tool call returns on the state it reads.
RunTool(call, st) ==
    CASE call.tool = "start_order" -> start_order(st)
      [] call.tool = "add_item" ->
            add_item(call.args.item_name, call.args.size, call.args.quantity,
                     call.args.extras, call.args.price, st)
      [] call.tool = "remove_item" -> remove_item(call.args.item_index, st)
      [] call.tool = "finish_order_collection" -> finish_order_collection(st)
      [] call.tool = "set_order_type" ->
            set_order_type(call.args.order_type, st)
      [] call.tool = "set_delivery_address" ->
            set_delivery_address(call.args.address, st)
      [] call.tool = "confirm_order" -> confirm_order(st)
      [] call.tool = "add_more_items" -> add_more_items(st)
      [] call.tool = "process_payment" ->
            process_payment(call.args.payment_method, st)
      [] call.tool = "go_back_to_order" -> go_back_to_order(st)

\* ---------------------------------------------------------------- actions
\* The scenario of the specification's testable properties: six tool calls
\* from the initial state.
Scenario ==
    <<[tool |-> "start_order"],
      [tool |-> "add_item",
       args |-> [item_name |-> "Cheese Pizza", size |-> "medium",
                 quantity |-> 1, extras |-> <<>>, price |-> 925]],
      [tool |-> "finish_order_collection"],
      [tool |-> "set_order_type", args |-> [order_type |-> "pickup"]],
      [tool |-> "confirm_order"],
      [tool |-> "process_payment", args |-> [payment_method |-> "cash"]]>>

\* The customer then changes the paid order: back to the collection, one more
\* item, and to the payment step again without paying again.
Continuation ==
    <<[tool |-> "go_back_to_order"],
      [tool |-> "add_item",
       args |-> [item_name |-> "Coke", size |-> "small",
                 quantity |-> 3, extras |-> <<>>, price |-> 100]],
      [tool |-> "finish_order_collection"],
      [tool |-> "set_order_type", args |-> [order_type |-> "pickup"]],
      [tool |-> "confirm_order"]>>

Script == Scenario \o Continuation

\* How far the calls made so far follow the script: the number of calls
\* when they are exactly its first calls, -1 once a call departed from it.
Follow(done, call) ==
    IF done >= 0 /\ done < Len(Script) /\ call = Script[done + 1]
    THEN done + 1
    ELSE -1

\* The threads of control that may run a turn on the one conversation
\* thread.
Turns == {1, 2}

Idle == [phase |-> "idle"]

\* ======================================================= search result cache
\* utils/tools/websearchtools.py.  Times are minutes; a formatted result is
\* the record of what it shows: the query and the number of results.

\* The cache keeps at most this many entries.
CacheLimit == 100

\* An entry is served while it is younger than this many minutes.
CacheMinutes == 60

\* The largest max_results the validation accepts.
MaxResultsLimit == 15

\* The shortest query the validation accepts.
MinQueryLen == 2

\* Results the sources can give for one query, after deduplication.
MaxFound == 3

\* The clock of the search specification stops here.
MaxClock == 80

\* The keys the eviction specification writes, and where its clock stops.
MaxQueries == 102
MaxEvictClock == 1

None == [kind |-> "None"]

ValueError == [kind |-> "ValueError"]

NoResultsFound(query) == [kind |-> "no_results", query |-> query]

\* The formatted text of `count` results for `query`.
format_results(query, count) ==
    [kind |-> "results", query |-> query, count |-> count]

\* The modes that search at least one source.
SearchModes ==
    {"hybrid", "wikipedia_first", "web_first", "wikipedia_only", "web_only"}

\* key = f"{query}:{mode}"
Key(query, mode) == query \o ":" \o mode

\* The dict as the sequence of its entries in insertion order.
CacheKeys(cache) == {cache[i].key : i \in 1..Len(cache)}

Position(cache, key) ==
    IF key \in CacheKeys(cache)
    THEN CHOOSE i \in 1..Len(cache) : cache[i].key = key
    ELSE 0

get_cached_results_ttl_inclusive(cache, query, mode, now) ==
    LET i == Position(cache, Key(query, mode))
    IN  IF i # 0 /\ now - cache[i].timestamp <= CacheMinutes
        THEN cache[i].results
        ELSE None

get_cached_results(cache, query, mode, now) ==
    LET i == Position(cache, Key(query, mode))
    IN  IF i # 0 /\ now - cache[i].timestamp < CacheMinutes
        THEN cache[i].results
        ELSE None

\* min(keys, key = timestamp): the first entry, in dict order, among those
\* of the smallest timestamp.
OldestPosition(cache) ==
    CHOOSE i \in 1..Len(cache) :
        /\ \A j \in 1..Len(cache) : cache[i].timestamp <= cache[j].timestamp
        /\ \A j \in 1..(i - 1) : cache[j].timestamp > cache[i].timestamp

\* del d[key]
Delete(cache, i) == SubSeq(cache, 1, i - 1) \o SubSeq(cache, i + 1, Len(cache))

\* d[key] = value: a new key is appended, a present key keeps its place.
Store(cache, entry) ==
    LET i == Position(cache, entry.key)
    IN  IF i = 0 THEN Append(cache, entry) ELSE [cache EXCEPT ![i] = entry]

cache_results_evicts_newest(cache, query, mode, results, now) ==
    LET written == Store(cache, [key |-> Key(query, mode),
                                 timestamp |-> now, results |-> results])
    IN  IF Len(written) > CacheLimit
        THEN Delete(written, Len(written))
        ELSE written

cache_results(cache, query, mode, results, now) ==
    LET written == Store(cache, [key |-> Key(query, mode),
                                 timestamp |-> now, results |-> results])
    IN  IF Len(written) > CacheLimit
        THEN Delete(written, OldestPosition(written))
        ELSE written

\* _validate_input, for the query and max_results (timeout_seconds and
\* recency_weight keep their defaults).
validate_input(query, max_results) ==
    /\ Len(query) >= MinQueryLen
    /\ max_results >= 1
    /\ max_results <= MaxResultsLimit

\* web_hybrid_search on a query without surrounding blanks, when no source
\* raises: what it returns and the cache it leaves.  `found` is the number of
\* results the sources give after ranking and deduplication.
web_hybrid_search(cache, query, search_mode, max_results, allow_cache, found, now) ==
    LET cached == get_cached_results(cache, query, search_mode, now)
        formatted == format_results(query, Min(found, max_results))
    IN  IF ~validate_input(query, max_results)
        THEN [returned |-> ValueError, cache |-> cache]
        ELSE IF allow_cache /\ cached # None
        THEN [returned |-> cached, cache |-> cache]
        ELSE IF search_mode \notin SearchModes \/ found = 0
        THEN [returned |-> NoResultsFound(query), cache |-> cache]
        ELSE [returned |-> formatted,
              cache |-> IF allow_cache
                        THEN cache_results(cache, query, search_mode,
                                           formatted, now)
                        ELSE cache]

\* Inputs of the search specification.  Two (query, mode) pairs give the
\* same key: ("pizza:web_only", "hybrid") and ("pizza", "web_only:hybrid").
Queries == {"pizza", "pizza:web_only"}

Modes == {"hybrid", "web_only:hybrid"}

MaxResultsInputs == {0, 1, 3}

\* Minutes that pass between two calls.
Ticks == {20, 40}

\* ============================================================= memory tools
\* utils/tools/memory.py.  A thread identifier is the sequence of its
\* characters; an Optional[str] is the set of at most one identifier.

\* Checkpoints one thread keeps in the model.
MaxCheckpoints == 2

ThreadIds == {<<"t", "1">>, <<"t", "1", "0">>, <<"t", "2">>}

NoThread == {}

InMemorySaver == [kind |-> "InMemorySaver"]

\* sub in s, for strings.
Contains(sub, s) ==
    \E i \in 1..(Len(s) - Len(sub) + 1) : SubSeq(s, i, i + Len(sub) - 1) = sub

\* thread_id or _current_thread_id: None and the empty string are falsy.
TargetThread(thread_id, current) ==
    IF thread_id # NoThread /\ thread_id # {<<>>} THEN thread_id ELSE current

\* The storage after del storage[key] for each key of keys_to_remove.
Without(store, keys_to_remove) ==
    [key \in DOMAIN store \ keys_to_remove |-> store[key]]

clear_all_memory(ref, store) ==
    IF ref = None
    THEN [message |-> "Error: Checkpointer not initialized.",
          storage |-> store]
    ELSE [message |-> "MEMORY CLEARED SUCCESSFULLY",
          storage |-> [key \in {} |-> 0]]

clear_thread_memory(ref, current, thread_id, store) ==
    LET target_thread == TargetThread(thread_id, current)
    IN  IF ref = None
        THEN [message |-> "Error: Checkpointer not initialized.",
              storage |-> store]
        ELSE IF target_thread = NoThread
        THEN [message |-> "Error: No thread_id specified.",
              storage |-> store]
        ELSE LET t == CHOOSE x \in target_thread : TRUE
                 keys_to_remove == {key \in DOMAIN store : Contains(t, key)}
             IN  [message |-> "Memory for thread cleared successfully!",
                  storage |-> Without(store, keys_to_remove)]

clear_memory(ref, current, scope, store) ==
    IF scope = "thread"
    THEN clear_thread_memory(ref, current, NoThread, store)
    ELSE clear_all_memory(ref, store)

Scopes == {"all", "thread"}

\* ======================================================= recipe review graph
\* 10.recipe-generator-hitl.py.

\* Reviews of one run of the graph in the model.
MaxReviews == 3

START == "START"

END == "END"

\* What the model answers: text of the asked format, or anything else.
Responses ==
    {[parsed |-> TRUE, name |-> "Stir Fry",
      steps |-> <<"Chop", "Fry", "Serve">>],
     [parsed |-> TRUE, name |-> "Soy Chicken",
      steps |-> <<"Marinate", "Bake", "Serve">>],
     [parsed |-> FALSE]}

IngredientInputs == {<<>>, <<"egg", "rice">>}

Notes == {"", "less salt"}

\* The state the script starts the graph with.
initial_state(ingredients) ==
    [ingredients |-> IF ingredients = <<>>
                     THEN <<"chicken", "broccoli", "soy sauce">>
                     ELSE ingredients,
     recipe_name |-> "",
     recipe_steps |-> <<>>,
     approved |-> FALSE,
     notes |-> <<>>]

generate_recipe(st, response) ==
    IF response.parsed
    THEN [st EXCEPT !.recipe_name = response.name,
                    !.recipe_steps = response.steps]
    ELSE [st EXCEPT !.recipe_name = "Mixed Ingredient Recipe",
                    !.recipe_steps = <<"Combine all ingredients",
                                       "Cook until done",
                                       "Serve and enjoy">>]

review_recipe(st, approval, notes) ==
    [st EXCEPT !.approved = approval,
               !.notes = IF notes # "" THEN Append(st.notes, notes)
                         ELSE st.notes]

refine_recipe_approves(st, response) ==
    IF response.parsed
    THEN [st EXCEPT !.recipe_name = response.name,
                    !.recipe_steps = response.steps,
                    !.approved = TRUE]
    ELSE [st EXCEPT !.recipe_name = st.recipe_name \o " (Improved)",
                    !.approved = TRUE]

refine_recipe(st, response) ==
    IF st.approved
    THEN st
    ELSE IF response.parsed
    THEN [st EXCEPT !.recipe_name = response.name,
                    !.recipe_steps = response.steps,
                    !.approved = FALSE]
    ELSE [st EXCEPT !.recipe_name = st.recipe_name \o " (Improved)",
                    !.approved = FALSE]

save_recipe(st) == st

\* The conditional edge after review_recipe.
route_after_review(st) ==
    IF st.approved THEN "save_recipe" ELSE "refine_recipe"

\* The edges of the graph: the node that follows `node` with state st.
next_after(node, st) ==
    CASE node = "generate_recipe" -> "review_recipe"
      [] node = "review_recipe" -> route_after_review(st)
      [] node = "refine_recipe" -> "review_recipe"
      [] node = "save_recipe" -> END

\* compile(interrupt_after = ...)
interrupt_after == {"generate_recipe", "refine_recipe"}

\* ------------------------------------------------------------ initial state
\* No model request is prepared: between a tool's result and the next run of
\* the middleware.
NoRequest ==
    [system_prompt |->
        [template |-> "none",
         values |-> [order_items |-> <<>>, order_total |-> 0,
                     order_type |-> "not set", delivery_address |-> "N/A"]],
     tools |-> {}]

Init ==
    /\ state = EmptyState
    /\ tool_call = [tool |-> "none"]
    /\ tool_message = [tool |-> "none", content |-> "none"]
    /\ pc = "middleware"
    /\ request = NoRequest
    /\ progress = 0
    /\ inflight = [t \in Turns |-> Idle]
    /\ completed = 0
    /\ overlapped = FALSE
    /\ result_cache = <<>>
    /\ clock = 0
    /\ cache_call = [op |-> "none"]
    /\ last_written = [key \in {} |-> 0]
    /\ storage = [key \in {} |-> 0]
    /\ checkpointer = None
    /\ current_thread_id = NoThread
    /\ memory_call = [op |-> "none"]
    /\ recipe = initial_state(<<>>)
    /\ next_node = START
    /\ last_node = "none"
    /\ interrupted = FALSE
    /\ reviews = 0

\* Before each model call the middleware overrides the request with the
\* prompt and the tools of the current step; the state is only read.  The
\* model has not answered yet: no tool call is pending.
ApplyStepConfig ==
    /\ pc = "middleware"
    /\ request' = apply_step_config(state)
    /\ pc' = "model"
    /\ tool_call' = [tool |-> "none"]
    /\ UNCHANGED <<state, tool_message, progress, inflight, completed,
                   overlapped>>
    /\ UNCHANGED <<cacheVars, memoryVars, recipeVars>>

\* The model may call `name`: the middleware gave it that tool for the
\* current step.
Exposed(name) == name \in request.tools

\* The tool node runs the called tool on the current state and merges the
\* update of the Command it returns.
ToolNode(call) ==
    /\ pc = "model"
    /\ pc' = "middleware"
    /\ request' = NoRequest
    /\ call.tool = "add_item" =>
           Len(Get(state, "order_items", <<>>)) < MaxItems
    /\ LET update == RunTool(call, state)
       IN  /\ state' = ApplyUpdate(state, update)
           /\ tool_message' = update.messages
           /\ tool_call' = call
           /\ progress' = Follow(progress, call)
           /\ UNCHANGED <<inflight, completed, overlapped>>
           /\ UNCHANGED <<cacheVars, memoryVars, recipeVars>>

\* One agent turn per tool: the model calls a tool it was given.
StartOrder ==
    \E call \in ToolCalls :
        call.tool = "start_order" /\ Exposed("start_order") /\ ToolNode(call)

AddItem ==
    \E call \in ToolCalls :
        call.tool = "add_item" /\ Exposed("add_item") /\ ToolNode(call)

RemoveItem ==
    \E call \in ToolCalls :
        call.tool = "remove_item" /\ Exposed("remove_item") /\ ToolNode(call)

FinishOrderCollection ==
    \E call \in ToolCalls :
        call.tool = "finish_order_collection" /\ Exposed("finish_order_collection") /\ ToolNode(call)

SetOrderType ==
    \E call \in ToolCalls :
        call.tool = "set_order_type" /\ Exposed("set_order_type") /\ ToolNode(call)

SetDeliveryAddress ==
    \E call \in ToolCalls :
        call.tool = "set_delivery_address" /\ Exposed("set_delivery_address") /\ ToolNode(call)

ConfirmOrder ==
    \E call \in ToolCalls :
        call.tool = "confirm_order" /\ Exposed("confirm_order") /\ ToolNode(call)

AddMoreItems ==
    \E call \in ToolCalls :
        call.tool = "add_more_items" /\ Exposed("add_more_items") /\ ToolNode(call)

ProcessPayment ==
    \E call \in ToolCalls :
        call.tool = "process_payment" /\ Exposed("process_payment") /\ ToolNode(call)

GoBackToOrder ==
    \E call \in ToolCalls :
        call.tool = "go_back_to_order" /\ Exposed("go_back_to_order") /\ ToolNode(call)

Next ==
    \/ ApplyStepConfig
    \/ StartOrder
    \/ AddItem
    \/ RemoveItem
    \/ FinishOrderCollection
    \/ SetOrderType
    \/ SetDeliveryAddress
    \/ ConfirmOrder
    \/ AddMoreItems
    \/ ProcessPayment
    \/ GoBackToOrder

Spec == Init /\ [][Next]_vars

\* The tool node holds every tool of all_tools, and no tool checks the step:
\* a call of any registered tool runs at any step.
AnyStartOrder ==
    \E call \in ToolCalls : call.tool = "start_order" /\ ToolNode(call)

AnyAddItem ==
    \E call \in ToolCalls : call.tool = "add_item" /\ ToolNode(call)

AnyRemoveItem ==
    \E call \in ToolCalls : call.tool = "remove_item" /\ ToolNode(call)

AnyFinishOrderCollection ==
    \E call \in ToolCalls : call.tool = "finish_order_collection" /\ ToolNode(call)

AnySetOrderType ==
    \E call \in ToolCalls : call.tool = "set_order_type" /\ ToolNode(call)

AnySetDeliveryAddress ==
    \E call \in ToolCalls : call.tool = "set_delivery_address" /\ ToolNode(call)

AnyConfirmOrder ==
    \E call \in ToolCalls : call.tool = "confirm_order" /\ ToolNode(call)

AnyAddMoreItems ==
    \E call \in ToolCalls : call.tool = "add_more_items" /\ ToolNode(call)

AnyProcessPayment ==
    \E call \in ToolCalls : call.tool = "process_payment" /\ ToolNode(call)

AnyGoBackToOrder ==
    \E call \in ToolCalls : call.tool = "go_back_to_order" /\ ToolNode(call)

NextAny ==
    \/ ApplyStepConfig
    \/ AnyStartOrder
    \/ AnyAddItem
    \/ AnyRemoveItem
    \/ AnyFinishOrderCollection
    \/ AnySetOrderType
    \/ AnySetDeliveryAddress
    \/ AnyConfirmOrder
    \/ AnyAddMoreItems
    \/ AnyProcessPayment
    \/ AnyGoBackToOrder

SpecAny == Init /\ [][NextAny]_vars

\* Turns that overlap on one thread.  Every turn loads the thread's state
\* from the checkpointer when it starts, runs on that copy, and stores the
\* copy with the tool's update when it ends; nothing orders the turns.
TurnLoad(t) ==
    /\ inflight[t] = Idle
    /\ inflight' = [inflight EXCEPT ![t] =
                        [phase |-> "loaded", snapshot |-> state]]
    /\ overlapped' = (overlapped \/ \E u \in Turns \ {t} : inflight[u] # Idle)
    /\ UNCHANGED <<state, tool_call, tool_message, pc, request, progress,
                   completed>>
    /\ UNCHANGED <<cacheVars, memoryVars, recipeVars>>

\* The turn's tool runs on the state the turn loaded; the result is stored
\* as the thread's state.
TurnStore(t, call) ==
    /\ inflight[t] # Idle
    /\ call.tool \in apply_step_config(inflight[t].snapshot).tools
    /\ LET snapshot == inflight[t].snapshot
           update == RunTool(call, snapshot)
       IN  /\ state' = ApplyUpdate(snapshot, update)
           /\ tool_message' = update.messages
           /\ tool_call' = call
    /\ inflight' = [inflight EXCEPT ![t] = Idle]
    /\ UNCHANGED <<pc, request, progress, overlapped>>
    /\ UNCHANGED <<cacheVars, memoryVars, recipeVars>>

TurnStartOrder ==
    \E t \in Turns : \E call \in ToolCalls :
        /\ call.tool = "start_order"
        /\ TurnStore(t, call)
        /\ completed' = 0

TurnAddItem ==
    \E t \in Turns : \E call \in ToolCalls :
        /\ call.tool = "add_item"
        /\ completed < MaxCompleted
        /\ TurnStore(t, call)
        /\ completed' = completed + 1

TurnBegin == \E t \in Turns : TurnLoad(t)

NextOverlap ==
    \/ TurnBegin
    \/ TurnStartOrder
    \/ TurnAddItem

SpecOverlap == Init /\ [][NextOverlap]_vars

\* ------------------------------------------------ search cache: the actions
\* Time passes between two calls.
Tick ==
    \E d \in Ticks :
        /\ clock + d <= MaxClock
        /\ clock' = clock + d
        /\ cache_call' = [op |-> "none"]
        /\ UNCHANGED <<result_cache, last_written>>
        /\ UNCHANGED <<orderVars, memoryVars, recipeVars>>

\* The record of the latest _cache_results call of each key.
Record(written, key, results, now) ==
    [k \in DOMAIN written \cup {key} |->
        IF k = key THEN [timestamp |-> now, results |-> results]
        ELSE written[k]]

\* A call of the tool that no source fails.  It stores its result when
\* allow_cache is set and the result is new ("Search complete").
WebHybridSearch ==
    \E query \in Queries, search_mode \in Modes,
       max_results \in MaxResultsInputs, allow_cache \in BOOLEAN,
       found \in 0..MaxFound :
        LET out == web_hybrid_search(result_cache, query, search_mode,
                                     max_results, allow_cache, found, clock)
            searched == /\ validate_input(query, max_results)
                        /\ ~(allow_cache /\
                             get_cached_results(result_cache, query,
                                                search_mode, clock) # None)
                        /\ out.returned.kind = "results"
        IN  /\ result_cache' = out.cache
            /\ cache_call' = [op |-> "web_hybrid_search",
                              query |-> query,
                              search_mode |-> search_mode,
                              max_results |-> max_results,
                              allow_cache |-> allow_cache,
                              returned |-> out.returned]
            /\ last_written' =
                   IF searched /\ allow_cache
                   THEN Record(last_written, Key(query, search_mode),
                               out.returned, clock)
                   ELSE last_written
            /\ UNCHANGED clock
            /\ UNCHANGED <<orderVars, memoryVars, recipeVars>>

\* A call of the tool in which a source fails: the cache missed, a search
\* raised, the tool raises ValueError and stores nothing.
WebHybridSearchRaises ==
    \E query \in Queries, search_mode \in Modes \cap SearchModes,
       max_results \in MaxResultsInputs, allow_cache \in BOOLEAN :
        /\ validate_input(query, max_results)
        /\ ~(allow_cache /\
             get_cached_results(result_cache, query, search_mode, clock)
                 # None)
        /\ cache_call' = [op |-> "web_hybrid_search",
                          query |-> query,
                          search_mode |-> search_mode,
                          max_results |-> max_results,
                          allow_cache |-> allow_cache,
                          returned |-> ValueError]
        /\ UNCHANGED <<result_cache, clock, last_written>>
        /\ UNCHANGED <<orderVars, memoryVars, recipeVars>>

GetCachedResults ==
    \E query \in Queries, mode \in Modes :
        /\ cache_call' = [op |-> "get_cached_results",
                          query |-> query,
                          mode |-> mode,
                          returned |-> get_cached_results(result_cache, query,
                                                          mode, clock)]
        /\ UNCHANGED <<result_cache, clock, last_written>>
        /\ UNCHANGED <<orderVars, memoryVars, recipeVars>>

NextSearch ==
    \/ Tick
    \/ WebHybridSearch
    \/ WebHybridSearchRaises
    \/ GetCachedResults

SpecSearch == Init /\ [][NextSearch]_vars

\* ---------------------------------------------- cache eviction: the actions
\* One _cache_results call.
CacheResults(query, mode, results) ==
    /\ result_cache' = cache_results(result_cache, query, mode, results, clock)
    /\ last_written' = Record(last_written, Key(query, mode), results, clock)
    /\ cache_call' = [op |-> "cache_results", query |-> query, mode |-> mode]
    /\ UNCHANGED clock
    /\ UNCHANGED <<orderVars, memoryVars, recipeVars>>

\* The n-th query never cached before.
Query(n) == "q" \o ToString(n)

RepeatedQueries == {Query(1)}

CacheNewKey ==
    LET query == Query(Cardinality(DOMAIN last_written) + 1)
    IN  /\ Cardinality(DOMAIN last_written) < MaxQueries
        /\ CacheResults(query, "hybrid", format_results(query, 1))

\* A query cached before is cached again, once the cache is full: it is
\* written in place when its entry is still there, and inserted when not.
CacheKnownKey ==
    \E query \in RepeatedQueries :
        /\ Key(query, "hybrid") \in DOMAIN last_written
        /\ Len(result_cache) = CacheLimit
        /\ CacheResults(query, "hybrid", format_results(query, 1))

\* The clock may stand still between two calls: timestamps can be equal.
EvictTick ==
    /\ clock < MaxEvictClock
    /\ clock' = clock + 1
    /\ cache_call' = [op |-> "none"]
    /\ UNCHANGED <<result_cache, last_written>>
    /\ UNCHANGED <<orderVars, memoryVars, recipeVars>>

NextEvict ==
    \/ CacheNewKey
    \/ CacheKnownKey
    \/ EvictTick

SpecEvict == Init /\ [][NextEvict]_vars

\* ------------------------------------------------ memory tools: the actions
Checkpoints(thread) == Get(storage, thread, 0)

SetMemoryReferences ==
    \E thread \in ThreadIds :
        /\ checkpointer' = InMemorySaver
        /\ current_thread_id' = {thread}
        /\ memory_call' = [op |-> "set_memory_references"]
        /\ UNCHANGED storage
        /\ UNCHANGED <<orderVars, cacheVars, recipeVars>>

UpdateThreadId ==
    \E thread \in ThreadIds :
        /\ current_thread_id' = {thread}
        /\ memory_call' = [op |-> "update_thread_id"]
        /\ UNCHANGED <<storage, checkpointer>>
        /\ UNCHANGED <<orderVars, cacheVars, recipeVars>>

\* A turn of the agent under a thread: the saver keeps one more checkpoint
\* of that thread, whether or not the tools were given a reference to it.
AgentInvoke ==
    \E thread \in ThreadIds :
        /\ Checkpoints(thread) < MaxCheckpoints
        /\ storage' = [key \in DOMAIN storage \cup {thread} |->
                          IF key = thread THEN Checkpoints(thread) + 1
                          ELSE storage[key]]
        /\ memory_call' = [op |-> "invoke"]
        /\ UNCHANGED <<checkpointer, current_thread_id>>
        /\ UNCHANGED <<orderVars, cacheVars, recipeVars>>

ClearThreadMemory ==
    \E thread_id \in {NoThread} \cup {{thread} : thread \in ThreadIds} :
        LET out == clear_thread_memory(checkpointer, current_thread_id,
                                       thread_id, storage)
        IN  /\ storage' = out.storage
            /\ memory_call' =
                   [op |-> "clear_thread_memory",
                    target |-> TargetThread(thread_id, current_thread_id),
                    message |-> out.message]
            /\ UNCHANGED <<checkpointer, current_thread_id>>
            /\ UNCHANGED <<orderVars, cacheVars, recipeVars>>

ClearAllMemory ==
    LET out == clear_all_memory(checkpointer, storage)
    IN  /\ storage' = out.storage
        /\ memory_call' = [op |-> "clear_all_memory",
                           message |-> out.message]
        /\ UNCHANGED <<checkpointer, current_thread_id>>
        /\ UNCHANGED <<orderVars, cacheVars, recipeVars>>

ClearMemory ==
    \E scope \in Scopes :
        LET out == clear_memory(checkpointer, current_thread_id, scope,
                                storage)
        IN  /\ storage' = out.storage
            /\ memory_call' = [op |-> "clear_memory",
                               scope |-> scope,
                               target |-> current_thread_id,
                               message |-> out.message]
            /\ UNCHANGED <<checkpointer, current_thread_id>>
            /\ UNCHANGED <<orderVars, cacheVars, recipeVars>>

NextMemory ==
    \/ SetMemoryReferences
    \/ UpdateThreadId
    \/ AgentInvoke
    \/ ClearThreadMemory
    \/ ClearAllMemory
    \/ ClearMemory

SpecMemory == Init /\ [][NextMemory]_vars

\* ------------------------------------------------ recipe graph: the actions
\* The script starts the graph with the ingredients it read.
InvokeGraph ==
    \E ingredients \in IngredientInputs :
        /\ next_node = START
        /\ recipe' = initial_state(ingredients)
        /\ next_node' = "generate_recipe"
        /\ UNCHANGED <<last_node, interrupted, reviews>>
        /\ UNCHANGED <<orderVars, cacheVars, memoryVars>>

\* `node` has run and left recipe': the edge is followed, and the run
\* pauses after the nodes of interrupt_after.  The pause before
\* review_recipe is that same pause: only these nodes lead to it.
Advance(node) ==
    /\ next_node = node
    /\ ~interrupted
    /\ next_node' = next_after(node, recipe')
    /\ last_node' = node
    /\ interrupted' = (node \in interrupt_after)
    /\ UNCHANGED <<orderVars, cacheVars, memoryVars>>

GenerateRecipe ==
    \E response \in Responses :
        /\ recipe' = generate_recipe(recipe, response)
        /\ Advance("generate_recipe")
        /\ UNCHANGED reviews

ReviewRecipe ==
    \E approval \in BOOLEAN, notes \in Notes :
        /\ reviews < MaxReviews
        /\ recipe' = review_recipe(recipe, approval, notes)
        /\ Advance("review_recipe")
        /\ reviews' = reviews + 1

RefineRecipe ==
    \E response \in Responses :
        /\ recipe' = refine_recipe(recipe, response)
        /\ Advance("refine_recipe")
        /\ UNCHANGED reviews

SaveRecipe ==
    /\ recipe' = save_recipe(recipe)
    /\ Advance("save_recipe")
    /\ UNCHANGED reviews

\* recipe_graph.invoke(None, ...): the paused run goes on.
Resume ==
    /\ interrupted
    /\ interrupted' = FALSE
    /\ UNCHANGED <<recipe, next_node, last_node, reviews>>
    /\ UNCHANGED <<orderVars, cacheVars, memoryVars>>

NextRecipe ==
    \/ InvokeGraph
    \/ GenerateRecipe
    \/ ReviewRecipe
    \/ RefineRecipe
    \/ SaveRecipe
    \/ Resume

SpecRecipe == Init /\ [][NextRecipe]_vars

\* ------------------------------------------------------- state projections
current_step == Get(state, "current_step", "greeting")
order_items == Get(state, "order_items", <<>>)
order_total == Get(state, "order_total", 0)
order_type == Get(state, "order_type", "not set")
delivery_address == Get(state, "delivery_address", "N/A")
payment_confirmed == Get(state, "payment_confirmed", FALSE)

TypeOK ==
    /\ DOMAIN state \subseteq OrderState
    /\ current_step \in OrderStep
    /\ Len(order_items) <= MaxItems
    /\ order_type \in {"pickup", "delivery", "not set"}
    /\ payment_confirmed \in BOOLEAN

\* The keys of `keys` are assigned alike, with the same values, before and
\* after the step.
Unchanged(keys) ==
    \A k \in keys :
        /\ (k \in DOMAIN state') <=> (k \in DOMAIN state)
        /\ k \in DOMAIN state => state'[k] = state[k]

\* ------------------------------------------------------------------ claims

\* C1: in every state reachable by any sequence of tool calls, order_total
\* equals the sum over order_items of price * quantity.
C1_TotalIsSumOfItems == order_total = SumItems(order_items)

C1_Witness_TotalAfterRemove ==
    /\ tool_call.tool = "remove_item"
    /\ tool_message.content = "Removed"
    /\ Len(order_items) = 2
    /\ order_items[1].quantity > 1
    /\ order_total = SumItems(order_items)

\* The edges of the step transition table of the specification.
TableEdges ==
    {<<"greeting", "start_order", "order_collection">>,
     <<"order_collection", "finish_order_collection", "order_type">>,
     <<"order_type", "set_order_type", "delivery_address">>,
     <<"order_type", "set_order_type", "order_summary">>,
     <<"delivery_address", "set_delivery_address", "order_summary">>,
     <<"order_summary", "add_more_items", "order_collection">>,
     <<"order_summary", "confirm_order", "payment">>,
     <<"payment", "go_back_to_order", "order_collection">>}

\* The two further edges STEP_CONFIG opens by exposing go_back_to_order at
\* the steps order_type and delivery_address.
GoBackEdges ==
    {<<"order_type", "go_back_to_order", "order_collection">>,
     <<"delivery_address", "go_back_to_order", "order_collection">>}

C3_ItemsNonEmptyAfterCollection ==
    current_step \in {"order_type", "delivery_address", "order_summary",
                      "payment"}
        => order_items # <<>>

\* C4 (as claimed): whenever delivery_address is set, order_type is delivery.
C4_AddressOnlyForDelivery ==
    "delivery_address" \in DOMAIN state => order_type = "delivery"

\* C5: set_order_type(pickup) always moves to order_summary and
\* set_order_type(delivery) always moves to delivery_address, and order_type
\* becomes the argument.
C5_SetOrderTypeTarget ==
    [][tool_call'.tool = "set_order_type" =>
          /\ order_type' = tool_call'.args.order_type
          /\ tool_call'.args.order_type = "pickup"
                => current_step' = "order_summary"
          /\ tool_call'.args.order_type = "delivery"
                => current_step' = "delivery_address"]_vars

C5_Witness_DeliveryChosen ==
    /\ tool_call.tool = "set_order_type"
    /\ tool_call.args.order_type = "delivery"
    /\ current_step = "delivery_address"
    /\ order_type = "delivery"

\* C6 (as claimed): confirm_order fails with InvalidStepTransition and keeps
\* current_step when order_items is empty or current_step is not
\* order_summary; otherwise it moves to payment.
C6_ConfirmOrderGuarded ==
    [][tool_call'.tool = "confirm_order" =>
          IF order_items = <<>> \/ current_step # "order_summary"
          THEN /\ tool_message'.content = "InvalidStepTransition"
               /\ current_step' = current_step
          ELSE current_step' = "payment"]_vars

\* The step each operation requires, as the specification lists them.
RequiredStep ==
    [start_order |-> "greeting",
     add_item |-> "order_collection",
     remove_item |-> "order_collection",
     finish_order_collection |-> "order_collection",
     set_order_type |-> "order_type",
     set_delivery_address |-> "delivery_address",
     confirm_order |-> "order_summary",
     add_more_items |-> "order_summary",
     process_payment |-> "payment",
     go_back_to_order |-> "payment"]

\* C7 (as claimed): an operation invoked while current_step is not its
\* required step fails with InvalidStepTransition and leaves the whole
\* OrderState unchanged.
C7_WrongStepFailsUnchanged ==
    [][tool_call'.tool \in all_tools
          /\ current_step # RequiredStep[tool_call'.tool]
          => /\ tool_message'.content = "InvalidStepTransition"
             /\ state' = state]_vars

\* C8: remove_item with an index below 1 or above the number of items reports
\* an error and leaves the order (items, total, step and every other key)
\* unchanged.
C8_RemoveOutOfRangeUnchanged ==
    [][tool_call'.tool = "remove_item"
          /\ (tool_call'.args.item_index < 1
              \/ tool_call'.args.item_index > Len(order_items))
          => /\ tool_message'.content = "Invalid item number"
             /\ order_items' = order_items
             /\ order_total' = order_total
             /\ current_step' = current_step
             /\ state' = state]_vars

C8_Witness_RemoveFifthOfTwo ==
    /\ tool_call.tool = "remove_item"
    /\ tool_call.args.item_index = 5
    /\ Len(order_items) = 2
    /\ tool_message.content = "Invalid item number"

\* The sequence s without its element at the 1-based position i.
WithoutPosition(s, i) ==
    [j \in 1 .. Len(s) - 1 |-> IF j < i THEN s[j] ELSE s[j + 1]]

\* C9: remove_item with 1 <= index <= len(order_items) removes exactly the
\* item at that 1-based position, keeps the others in order, and sets
\* order_total to the sum of price * quantity over the remaining items.
C9_RemoveInRange ==
    [][tool_call'.tool = "remove_item"
          /\ tool_call'.args.item_index >= 1
          /\ tool_call'.args.item_index <= Len(order_items)
          => /\ order_items' =
                    WithoutPosition(order_items, tool_call'.args.item_index)
             /\ order_total' = SumItems(order_items')
             /\ tool_message'.content = "Removed"]_vars

C9_Witness_RemovedFirstOfThree ==
    /\ tool_call.tool = "remove_item"
    /\ tool_call.args.item_index = 1
    /\ tool_message.content = "Removed"
    /\ Len(order_items) = 2
    /\ order_items[1].name # order_items[2].name

\* C10: process_payment sets payment_confirmed to true and leaves
\* current_step (payment), order_items, order_total, order_type and
\* delivery_address unchanged.
C10_ProcessPaymentFrame ==
    [][tool_call'.tool = "process_payment" =>
          /\ payment_confirmed' = TRUE
          /\ current_step = "payment"
          /\ current_step' = "payment"
          /\ Unchanged({"current_step", "order_items", "order_total",
                        "order_type", "delivery_address"})]_vars

C10_Witness_PaidDeliveryOrder ==
    /\ tool_call.tool = "process_payment"
    /\ payment_confirmed
    /\ current_step = "payment"
    /\ order_type = "delivery"
    /\ delivery_address = "12 Main St"
    /\ Len(order_items) >= 1

C13_Original_TotalIs1003 ==
    [][tool_call'.tool = "process_payment" /\ order_total = 925 =>
          tool_message'.total_2f = {1003}]_vars

\* C13 (amended): for a subtotal of 9.25 process_payment reports a final
\* total, rounded to cents, of 10.04 (9.25 * 1.085 = 10.03625).
C13_TotalIs1004 ==
    [][tool_call'.tool = "process_payment" /\ order_total = 925 =>
          /\ tool_message'.total = 1003625
          /\ tool_message'.total_2f = {1004}]_vars

C13_Witness_PaidCheesePizza ==
    /\ tool_call.tool = "process_payment"
    /\ tool_message.subtotal = 925
    /\ tool_message.total_2f = {1004}
    /\ Len(order_items) = 1

\* C14: start_order sets order_items to the empty list, order_total to 0 and
\* current_step to order_collection, whatever items and total were before.
C14_StartOrderResets ==
    [][tool_call'.tool = "start_order" =>
          /\ "order_items" \in DOMAIN state' /\ state'.order_items = <<>>
          /\ "order_total" \in DOMAIN state' /\ state'.order_total = 0
          /\ current_step' = "order_collection"]_vars

C14_Witness_OrderStarted ==
    /\ tool_call.tool = "start_order"
    /\ "order_items" \in DOMAIN state
    /\ order_items = <<>>
    /\ order_total = 0
    /\ current_step = "order_collection"

\* C15 (as claimed): finish_order_collection at step order_collection fails
\* and leaves current_step at order_collection when order_items is empty;
\* with a non-empty order_items it sets current_step to order_type and changes
\* nothing else.
C15_FinishNeedsItems ==
    [][tool_call'.tool = "finish_order_collection"
          /\ current_step = "order_collection"
          => IF order_items = <<>>
             THEN current_step' = "order_collection"
             ELSE /\ current_step' = "order_type"
                  /\ Unchanged(OrderState \ {"current_step"})]_vars

\* C16 (as claimed): add_item with quantity < 1 and set_delivery_address with
\* an empty address are rejected with InvalidArgument and leave order_items,
\* order_total, delivery_address and current_step unchanged.
C16_InvalidArgumentsRejected ==
    [][(\/ tool_call'.tool = "add_item" /\ tool_call'.args.quantity < 1
        \/ tool_call'.tool = "set_delivery_address"
              /\ tool_call'.args.address = "")
          => /\ tool_message'.content = "InvalidArgument"
             /\ Unchanged({"order_items", "order_total", "delivery_address",
                           "current_step"})]_vars

\* C17: before each model call the middleware exposes exactly the tools and
\* the prompt of STEP_CONFIG[current_step], with greeting when current_step
\* was never set, and it modifies no field of the OrderState.
C17_StepSelectorProjection ==
    [][pc = "middleware" /\ pc' = "model" =>
          /\ request'.tools = STEP_CONFIG[current_step].tools
          /\ request'.system_prompt.template = STEP_CONFIG[current_step].prompt
          /\ "current_step" \notin DOMAIN state =>
                request'.tools = STEP_CONFIG["greeting"].tools
          /\ state' = state]_vars

C17_Witness_GreetingByDefault ==
    /\ pc = "model"
    /\ "current_step" \notin DOMAIN state
    /\ request.tools = {"start_order"}
    /\ request.system_prompt.template = "GREETING_PROMPT"

\* C18: payment_confirmed is false (unset) initially and stays so until
\* process_payment runs: only process_payment makes it true.
C18_OnlyPaymentConfirms ==
    /\ ~payment_confirmed
    /\ [][~payment_confirmed /\ payment_confirmed' =>
             tool_call'.tool = "process_payment"]_vars

C18_Witness_PaidPickupOrder ==
    /\ tool_call.tool = "process_payment"
    /\ payment_confirmed
    /\ order_type = "pickup"
    /\ "delivery_address" \notin DOMAIN state

\* C19: whenever current_step is order_summary or payment and order_type is
\* delivery, delivery_address has been set.
C19_DeliveryHasAddress ==
    current_step \in {"order_summary", "payment"} /\ order_type = "delivery"
        => "delivery_address" \in DOMAIN state

C19_Witness_DeliverySummary ==
    /\ current_step = "order_summary"
    /\ order_type = "delivery"
    /\ tool_call.tool = "set_delivery_address"
    /\ delivery_address = "12 Main St"

\* C12: the scenario start_order, add_item(Cheese Pizza, medium, 1, [], 9.25),
\* finish_order_collection, set_order_type(pickup), confirm_order,
\* process_payment(cash) runs from the initial state with every call among
\* the tools exposed at its step, and ends with payment_confirmed = true,
\* current_step = payment, one item and order_total = 9.25.
C12_ScenarioEndsPaid ==
    /\ progress >= 1 => current_step # "greeting"
    /\ progress = Len(Scenario) =>
          /\ payment_confirmed
          /\ current_step = "payment"
          /\ Len(order_items) = 1
          /\ order_total = 925
          /\ order_type = "pickup"

C12_Witness_ScenarioCompleted ==
    /\ progress = Len(Scenario)
    /\ tool_call = Scenario[Len(Scenario)]
    /\ payment_confirmed

\* C20: when turns on the same thread overlap, an add_item is lost (the
\* order holds fewer items than add_item calls completed); when the turns are
\* serialized the order holds exactly one item per completed add_item.
C20_SerializedTurnsLoseNothing ==
    ~overlapped => Len(order_items) = completed

C20_Witness_LostUpdate ==
    /\ overlapped
    /\ tool_call.tool = "add_item"
    /\ completed = 2
    /\ Len(order_items) = 1
    /\ \A t \in Turns : inflight[t] = Idle

\* C21: go_back_to_order sets current_step to order_collection and leaves
\* order_items, order_total, order_type, delivery_address and
\* payment_confirmed unchanged; a payment_confirmed = true survives it.
C21_GoBackFrame ==
    [][tool_call'.tool = "go_back_to_order" =>
          /\ current_step' = "order_collection"
          /\ Unchanged({"order_items", "order_total", "order_type",
                        "delivery_address", "payment_confirmed"})
          /\ payment_confirmed => payment_confirmed']_vars

C21_Witness_WentBackAfterPaying ==
    /\ tool_call.tool = "go_back_to_order"
    /\ current_step = "order_collection"
    /\ payment_confirmed
    /\ Len(order_items) >= 1

\* C22: add_more_items sets current_step to order_collection and leaves
\* order_items, order_total, order_type and delivery_address unchanged.
C22_AddMoreItemsFrame ==
    [][tool_call'.tool = "add_more_items" =>
          /\ current_step' = "order_collection"
          /\ Unchanged({"order_items", "order_total", "order_type",
                        "delivery_address"})]_vars

C22_Witness_BackFromSummary ==
    /\ tool_call.tool = "add_more_items"
    /\ current_step = "order_collection"
    /\ Len(order_items) >= 1
    /\ order_type = "delivery"
    /\ delivery_address = "12 Main St"

\* C23: after process_payment, go_back_to_order, add_item,
\* finish_order_collection, set_order_type, confirm_order (no second
\* process_payment) the state has payment_confirmed = true at step payment
\* although order_items and order_total are no longer those that were paid
\* (one item, 9.25).
C23_StalePaymentFlag ==
    /\ progress > Len(Scenario) => payment_confirmed
    /\ progress = Len(Script) =>
          /\ payment_confirmed
          /\ current_step = "payment"
          /\ tool_message.tool = "confirm_order"
          /\ Len(order_items) = 2
          /\ order_total = 925 + 300

C23_Witness_PaidFlagOnChangedOrder ==
    /\ progress = Len(Script)
    /\ payment_confirmed
    /\ current_step = "payment"
    /\ order_total # 925
    /\ Len(order_items) # 1

\* C24: whenever current_step = s, every field of STEP_CONFIG[s].requires is
\* assigned; current_step = delivery_address implies order_type = delivery,
\* and current_step in {order_summary, payment} implies order_type is set.
C24_RequiredFieldsAssigned ==
    /\ STEP_CONFIG[current_step].requires \subseteq DOMAIN state
    /\ current_step = "delivery_address" => order_type = "delivery"
    /\ current_step \in {"order_summary", "payment"} =>
          order_type \in {"pickup", "delivery"}

C24_Witness_AddressStepOfDelivery ==
    /\ pc = "model"
    /\ current_step = "delivery_address"
    /\ order_type = "delivery"
    /\ STEP_CONFIG[current_step].requires = {"order_type"}
    /\ order_items = <<>>

\* The order is paid at the payment step.
Paid(st) ==
    /\ Get(st, "current_step", "greeting") = "payment"
    /\ Get(st, "payment_confirmed", FALSE)

\* An upper bound on the number of tool calls from st to a paid order.
StepsToPaid(st) ==
    LET step == Get(st, "current_step", "greeting")
    IN  CASE step = "payment" -> IF Paid(st) THEN 0 ELSE 1
          [] step = "order_summary" -> 2
          [] step = "delivery_address" -> 3
          [] step = "order_type" -> 4
          [] step = "order_collection" -> 5
          [] step = "greeting" -> 6

\* C25: the workflow never deadlocks and never returns to greeting: every
\* step exposes at least one tool, current_step = greeting holds only before
\* the first start_order, and from every reachable state an exposed tool call
\* leads one call nearer to current_step = payment with payment_confirmed.
C25_NoDeadlockNoGreetingAgain ==
    /\ STEP_CONFIG[current_step].tools # {}
    /\ pc = "model" => request.tools # {}
    /\ current_step = "greeting" => state = EmptyState
    /\ pc = "model" /\ ~Paid(state) =>
          \E call \in ToolCalls :
              /\ Exposed(call.tool)
              /\ StepsToPaid(ApplyUpdate(state, RunTool(call, state)))
                     < StepsToPaid(state)

C25_Witness_PaidAgainAfterGoingBack ==
    /\ pc = "middleware"
    /\ tool_call.tool = "process_payment"
    /\ Paid(state)
    /\ progress = -1
    /\ Len(order_items) = MaxItems

\* C26: web_hybrid_search called with max_results = n returns at most n
\* results whatever the earlier calls were, also when allow_cache is set and
\* an earlier call of the same query and mode with a larger max_results
\* filled the cache.
C26_AtMostMaxResults ==
    (cache_call.op = "web_hybrid_search" /\ cache_call.returned.kind = "results")
        => cache_call.returned.count <= cache_call.max_results

\* C27: _get_cached_results(query, mode) returns a stored result only when
\* _cache_results wrote an entry of that key less than 60 minutes earlier,
\* and the result is the one the latest _cache_results of that key wrote.
C27_ServedEntryIsFreshAndLatest ==
    (cache_call.op = "get_cached_results" /\ cache_call.returned # None) =>
        LET key == Key(cache_call.query, cache_call.mode)
        IN  /\ key \in DOMAIN last_written
            /\ clock - last_written[key].timestamp < CacheMinutes
            /\ cache_call.returned = last_written[key].results

C27_Witness_ServedAfter40Minutes ==
    /\ cache_call.op = "get_cached_results"
    /\ cache_call.returned.kind = "results"
    /\ Key(cache_call.query, cache_call.mode) \in DOMAIN last_written
    /\ clock - last_written[Key(cache_call.query, cache_call.mode)].timestamp
           = 40
    /\ Len(result_cache) = 2

\* The entries of the cache.
Entries(cache) == {cache[i] : i \in 1..Len(cache)}

\* C28: after every _cache_results call the cache holds at most 100 entries
\* and the entry just written is in it; a call that would make the size
\* exceed 100 removes exactly one other entry, one of the oldest timestamp,
\* and any other call removes nothing.
C28_EvictsOneOldestEntry ==
    [][cache_call'.op = "cache_results" =>
          LET key == Key(cache_call'.query, cache_call'.mode)
              before == Entries(result_cache)
              after == Entries(result_cache')
          IN  /\ Len(result_cache') <= CacheLimit
              /\ \E e \in after : e.key = key /\ e.timestamp = clock'
              /\ IF key \notin CacheKeys(result_cache)
                    /\ Len(result_cache) + 1 > CacheLimit
                 THEN \E old \in before :
                          /\ \A e \in before : old.timestamp <= e.timestamp
                          /\ CacheKeys(result_cache') =
                                 (CacheKeys(result_cache) \ {old.key})
                                     \cup {key}
                          /\ before \ {old} \subseteq after
                 ELSE /\ CacheKeys(result_cache') =
                             CacheKeys(result_cache) \cup {key}
                      /\ {e \in before : e.key # key} \subseteq after]_vars

C28_Witness_OldestEvictedNotFirst ==
    /\ cache_call.op = "cache_results"
    /\ Len(result_cache) = CacheLimit
    /\ Cardinality(DOMAIN last_written) > CacheLimit
    /\ Key(Query(1), "hybrid") \in CacheKeys(result_cache)
    /\ Key(Query(2), "hybrid") \notin CacheKeys(result_cache)

\* C29: clear_thread_memory(t) removes only the entries of thread t and
\* leaves those of every other thread as they are, also of a thread whose
\* identifier contains t; without a checkpointer or a thread identifier it
\* answers an error and changes nothing.
C29_ClearsOnlyThatThread ==
    [][memory_call'.op = "clear_thread_memory" =>
          IF checkpointer = None \/ memory_call'.target = NoThread
          THEN /\ storage' = storage
               /\ memory_call'.message \in
                      {"Error: Checkpointer not initialized.",
                       "Error: No thread_id specified."}
          ELSE /\ \A key \in DOMAIN storage :
                      {key} # memory_call'.target =>
                          /\ key \in DOMAIN storage'
                          /\ storage'[key] = storage[key]
               /\ \A key \in DOMAIN storage' :
                      {key} # memory_call'.target]_vars

\* The node that runs in this step, "none" when the step runs no node.
\* Every node is left by the edge that follows it.
Runs(node) == next_node = node /\ next_node' # node

\* C30: save_recipe runs, and END is reached, only after a review_recipe
\* that set approved; a review that left approved false is followed by
\* refine_recipe, which keeps approved false and is followed by
\* review_recipe; the graph never ends with approved false.
C30_EndsOnlyApproved ==
    [][/\ Runs("save_recipe") =>
              /\ last_node = "review_recipe"
              /\ recipe.approved
              /\ recipe'.approved
              /\ next_node' = END
       /\ Runs("review_recipe") =>
              next_node' = IF recipe'.approved THEN "save_recipe"
                           ELSE "refine_recipe"
       /\ Runs("refine_recipe") =>
              /\ last_node = "review_recipe"
              /\ ~recipe.approved
              /\ ~recipe'.approved
              /\ next_node' = "review_recipe"
       /\ next_node' = END =>
              /\ recipe'.approved
              /\ last_node' = "save_recipe"]_vars

C30_Witness_SavedAfterRefinement ==
    /\ next_node = END
    /\ last_node = "save_recipe"
    /\ recipe.approved
    /\ reviews >= 2
    /\ recipe.notes # <<>>

====
